---- MODULE Spec2Model ----
(***************************************************************************)
(* Model of the Vault exporter's collection adapter (main.go): the metric  *)
(* catalog, Exporter.Describe, Exporter.Collect stepped line by line, and  *)
(* the metrics route that gathers the registered collectors.               *)
(***************************************************************************)
EXTENDS FiniteSets, Integers, Sequences, TLC

VARIABLES
    pc,         \* per scrape: position in the handler / in Collect
    health,     \* per scrape: Collect's local `health` (<<>> is nil)
    err,        \* per scrape: Collect's local `err` ("nil" is nil)
    ch,         \* per scrape: the metrics sent on Collect's channel so far
    got,        \* per scrape: what the upstream returned to this scrape's call
    body,       \* per scrape: the text lines the metrics route served
    seen,       \* one earlier completed scrape, remembered for comparison
    requests,   \* upstream health queries issued so far
    collects,   \* Collect invocations begun so far
    describes,  \* Describe invocations so far
    descs       \* what the last Describe sent on its channel

vars == <<pc, health, err, ch, got, body, seen, requests, collects, describes, descs>>

\* --------------------------------------------------------------- bounds
MaxRequests == 3
MaxDescribes == 2

Workers == {"w1", "w2"}

\* -------------------------------------------------------- metric catalog
namespace == "vault"

\* prometheus.BuildFQName: the non-empty parts joined by "_"; "" for no name.
BuildFQName(ns, subsystem, name) ==
    IF name = "" THEN ""
    ELSE IF ns # "" /\ subsystem # "" THEN ns \o "_" \o subsystem \o "_" \o name
    ELSE IF ns # "" THEN ns \o "_" \o name
    ELSE IF subsystem # "" THEN subsystem \o "_" \o name
    ELSE name

\* prometheus.NewDesc(fqName, help, variableLabels, constLabels = nil)
NewDesc(fqName, variableLabels) ==
    [fqName |-> fqName, variableLabels |-> variableLabels]

up == NewDesc(BuildFQName(namespace, "", "up"), <<>>)

initialized == NewDesc(BuildFQName(namespace, "", "initialized"), <<>>)

sealed == NewDesc(BuildFQName(namespace, "", "sealed"), <<>>)

standby == NewDesc(BuildFQName(namespace, "", "standby"), <<>>)

ver_nolabels == NewDesc(BuildFQName(namespace, "", "version"), <<>>)

ver == NewDesc(BuildFQName(namespace, "", "version"), <<"version">>)

clusterName == NewDesc(BuildFQName(namespace, "", "cluster_name"), <<"cluster_name">>)

clusterID == NewDesc(BuildFQName(namespace, "", "cluster_id"), <<"cluster_id">>)

\* ------------------------------------------------------ upstream results
Versions == {"1.2.3", "1.4.0"}
ClusterNames == {"prod-a", "c1"}
ClusterIDs == {"abc-1", "id1"}

\* vault_api.HealthResponse, the fields Collect reads
Snapshots ==
    [Initialized : BOOLEAN, Sealed : BOOLEAN, Standby : BOOLEAN,
     Version : Versions, ClusterName : ClusterNames, ClusterID : ClusterIDs]

ZeroHealth ==
    [Initialized |-> FALSE, Sealed |-> FALSE, Standby |-> FALSE,
     Version |-> "", ClusterName |-> "", ClusterID |-> ""]

ErrKinds == {"refused", "timeout", "status", "malformed"}

\* What e.client.Sys().Health() can return: a snapshot with a nil error, or
\* an error with a pointer that is nil or points at an undecoded response.
Responses ==
    {[health |-> <<s>>, err |-> "nil"] : s \in Snapshots}
    \cup {[health |-> h, err |-> k] : h \in {<<>>, <<ZeroHealth>>}, k \in ErrKinds}

\* ------------------------------------------------- client_golang values
\* prometheus.NewConstMetric fails when the label values do not match the
\* descriptor's variable labels in number; MustNewConstMetric then panics.
ConstMetricFails(desc, labelValues) ==
    Len(labelValues) # Len(desc.variableLabels)

\* The metric MustNewConstMetric(desc, GaugeValue, value, labelValues...) builds.
MustNewConstMetric(desc, value, labelValues) ==
    [name |-> desc.fqName,
     value |-> value,
     labels |-> [i \in 1..Len(labelValues) |->
                    <<desc.variableLabels[i], labelValues[i]>>]]

bool2float(b) == IF b THEN 1 ELSE 0

\* ------------------------------------------------------- Exporter.Collect
SendLines == {"L99", "L106", "L109", "L112", "L115", "L118", "L121", "L124"}
ReturnLines == {"L103", "L127"}

\* The send statements that read a field of *health.
ReadsHealth(line) == line \in {"L109", "L112", "L115", "L118", "L121", "L124"}

\* The descriptor, value and label values of the send statement at `line`;
\* h is the local health (a one-element sequence when not nil).
Args_swapped(line, h) ==
    CASE line = "L99"  -> [desc |-> up, value |-> 0, labelValues |-> <<>>]
      [] line = "L106" -> [desc |-> up, value |-> 1, labelValues |-> <<>>]
      [] line = "L109" -> [desc |-> initialized,
                           value |-> bool2float(h[1].Initialized), labelValues |-> <<>>]
      [] line = "L112" -> [desc |-> sealed,
                           value |-> bool2float(h[1].Sealed), labelValues |-> <<>>]
      [] line = "L115" -> [desc |-> standby,
                           value |-> bool2float(h[1].Standby), labelValues |-> <<>>]
      [] line = "L118" -> [desc |-> ver, value |-> 1,
                           labelValues |-> <<h[1].Version>>]
      [] line = "L121" -> [desc |-> clusterName, value |-> 1,
                           labelValues |-> <<h[1].ClusterID>>]
      [] line = "L124" -> [desc |-> clusterID, value |-> 1,
                           labelValues |-> <<h[1].ClusterName>>]

Args_upalways(line, h) ==
    CASE line = "L99"  -> [desc |-> up, value |-> 1, labelValues |-> <<>>]
      [] line = "L106" -> [desc |-> up, value |-> 1, labelValues |-> <<>>]
      [] line = "L109" -> [desc |-> initialized,
                           value |-> bool2float(h[1].Initialized), labelValues |-> <<>>]
      [] line = "L112" -> [desc |-> sealed,
                           value |-> bool2float(h[1].Sealed), labelValues |-> <<>>]
      [] line = "L115" -> [desc |-> standby,
                           value |-> bool2float(h[1].Standby), labelValues |-> <<>>]
      [] line = "L118" -> [desc |-> ver, value |-> 1,
                           labelValues |-> <<h[1].Version>>]
      [] line = "L121" -> [desc |-> clusterName, value |-> 1,
                           labelValues |-> <<h[1].ClusterName>>]
      [] line = "L124" -> [desc |-> clusterID, value |-> 1,
                           labelValues |-> <<h[1].ClusterID>>]

Args(line, h) ==
    CASE line = "L99"  -> [desc |-> up, value |-> 0, labelValues |-> <<>>]
      [] line = "L106" -> [desc |-> up, value |-> 1, labelValues |-> <<>>]
      [] line = "L109" -> [desc |-> initialized,
                           value |-> bool2float(h[1].Initialized), labelValues |-> <<>>]
      [] line = "L112" -> [desc |-> sealed,
                           value |-> bool2float(h[1].Sealed), labelValues |-> <<>>]
      [] line = "L115" -> [desc |-> standby,
                           value |-> bool2float(h[1].Standby), labelValues |-> <<>>]
      [] line = "L118" -> [desc |-> ver, value |-> 1,
                           labelValues |-> <<h[1].Version>>]
      [] line = "L121" -> [desc |-> clusterName, value |-> 1,
                           labelValues |-> <<h[1].ClusterName>>]
      [] line = "L124" -> [desc |-> clusterID, value |-> 1,
                           labelValues |-> <<h[1].ClusterID>>]

\* The statement control reaches after the send at `line`.
NextLine_noreturn(line) ==
    CASE line = "L99"  -> "L109"
      [] line = "L106" -> "L109"
      [] line = "L109" -> "L112"
      [] line = "L112" -> "L115"
      [] line = "L115" -> "L118"
      [] line = "L118" -> "L121"
      [] line = "L121" -> "L124"
      [] line = "L124" -> "L127"

NextLine_short(line) ==
    CASE line = "L99"  -> "L103"
      [] line = "L106" -> "L109"
      [] line = "L109" -> "L112"
      [] line = "L112" -> "L115"
      [] line = "L115" -> "L118"
      [] line = "L118" -> "L121"
      [] line = "L121" -> "L127"
      [] line = "L124" -> "L127"

NextLine(line) ==
    CASE line = "L99"  -> "L103"
      [] line = "L106" -> "L109"
      [] line = "L109" -> "L112"
      [] line = "L112" -> "L115"
      [] line = "L115" -> "L118"
      [] line = "L118" -> "L121"
      [] line = "L121" -> "L124"
      [] line = "L124" -> "L127"

\* line 98: if err != nil
Failed_nilcheck(h, e) == h = <<>>

Failed(h, e) == e # "nil"

\* Where an invocation's locals health and err live: its own frame.
Frame_shared(w) == "w1"

Frame(w) == w

\* A scrape request arrives and the registry invokes Collect (line 96) with
\* a fresh channel.
Begin(w) ==
    /\ pc[w] = "idle"
    /\ collects < MaxRequests
    /\ pc' = [pc EXCEPT ![w] = "L97"]
    /\ ch' = [ch EXCEPT ![w] = <<>>]
    /\ collects' = collects + 1
    /\ UNCHANGED <<health, err, got, body, seen, requests, describes, descs>>

\* line 97: health, err := e.client.Sys().Health()
Health_retry(w) ==
    /\ pc[w] = "L97"
    /\ \E r \in Responses :
          /\ got' = [got EXCEPT ![w] = <<r>>]
          /\ health' = [health EXCEPT ![Frame(w)] = r.health]
          /\ err' = [err EXCEPT ![Frame(w)] = r.err]
          /\ requests' = IF r.err # "nil" THEN requests + 2 ELSE requests + 1
    /\ pc' = [pc EXCEPT ![w] = "L98"]
    /\ UNCHANGED <<ch, body, seen, collects, describes, descs>>

Health_cached(w) ==
    /\ pc[w] = "L97"
    /\ \E r \in Responses :
          LET stale == r.err # "nil" /\ seen # <<>> /\ seen[1].resp.err = "nil"
              used == IF stale THEN seen[1].resp ELSE r
          IN  /\ got' = [got EXCEPT ![w] = <<r>>]
              /\ health' = [health EXCEPT ![Frame(w)] = used.health]
              /\ err' = [err EXCEPT ![Frame(w)] = used.err]
    /\ requests' = requests + 1
    /\ pc' = [pc EXCEPT ![w] = "L98"]
    /\ UNCHANGED <<ch, body, seen, collects, describes, descs>>

Health(w) ==
    /\ pc[w] = "L97"
    /\ \E r \in Responses :
          /\ got' = [got EXCEPT ![w] = <<r>>]
          /\ health' = [health EXCEPT ![Frame(w)] = r.health]
          /\ err' = [err EXCEPT ![Frame(w)] = r.err]
    /\ requests' = requests + 1
    /\ pc' = [pc EXCEPT ![w] = "L98"]
    /\ UNCHANGED <<ch, body, seen, collects, describes, descs>>

\* line 98: if err != nil
Branch(w) ==
    /\ pc[w] = "L98"
    /\ pc' = [pc EXCEPT ![w] =
                IF Failed(health[Frame(w)], err[Frame(w)]) THEN "L99" ELSE "L106"]
    /\ UNCHANGED <<health, err, ch, got, body, seen, requests, collects, describes, descs>>

\* One `ch <- prometheus.MustNewConstMetric(...)` statement. Reading a field
\* through a nil health, or a failing NewConstMetric, panics.
Send(w) ==
    /\ pc[w] \in SendLines
    /\ LET line == pc[w]
           h == health[Frame(w)]
       IN  IF ReadsHealth(line) /\ h = <<>>
           THEN /\ pc' = [pc EXCEPT ![w] = "panic"]
                /\ ch' = ch
           ELSE LET a == Args(line, h)
                IN  IF ConstMetricFails(a.desc, a.labelValues)
                    THEN /\ pc' = [pc EXCEPT ![w] = "panic"]
                         /\ ch' = ch
                    ELSE /\ ch' = [ch EXCEPT ![w] =
                                     Append(@, MustNewConstMetric(a.desc, a.value, a.labelValues))]
                         /\ pc' = [pc EXCEPT ![w] = NextLine(line)]
    /\ UNCHANGED <<health, err, got, body, seen, requests, collects, describes, descs>>

\* ------------------------------------------------------------ Describe
\* lines 78-84: the descriptors Describe sends, in order.
DescribeSends_dropped == <<up, initialized, sealed, standby, ver, clusterName>>

DescribeSends == <<up, initialized, sealed, standby, ver, clusterName, clusterID>>

Describe ==
    /\ describes < MaxDescribes
    /\ descs' = DescribeSends
    /\ describes' = describes + 1
    /\ UNCHANGED <<pc, health, err, ch, got, body, seen, requests, collects>>

\* ------------------------------------------------------- metrics route
\* version.NewCollector(program): one gauge, <program>_build_info, value 1,
\* carrying the build's constant labels (abstracted to the version label).
NewCollector(program) ==
    <<[name |-> program \o "_build_info", value |-> 1,
       labels |-> << <<"version", "">> >>]>>

\* init(): the collector registered beside the Exporter (registered in main).
RegisteredBesides == NewCollector("vault_exporter")

RECURSIVE LabelPairs(_)
LabelPairs(ls) ==
    IF ls = <<>> THEN ""
    ELSE ls[1][1] \o "=\"" \o ls[1][2] \o "\""
         \o (IF Len(ls) > 1 THEN "," ELSE "") \o LabelPairs(Tail(ls))

ValueText(v) == CASE v = 0 -> "0" [] v = 1 -> "1"

\* The exposition text line of one sample.
TextLine(m) ==
    m.name \o (IF m.labels = <<>> THEN "" ELSE "{" \o LabelPairs(m.labels) \o "}")
           \o " " \o ValueText(m.value)

\* promhttp.Handler(): the samples of every registered collector, as text.
Gather(out) ==
    {TextLine(RegisteredBesides[i]) : i \in 1..Len(RegisteredBesides)}
    \cup {TextLine(out[i]) : i \in 1..Len(out)}

\* Collect returned (line 103 or 127); the handler writes the response.
Return(w) ==
    /\ pc[w] \in ReturnLines
    /\ body' = [body EXCEPT ![w] = Gather(ch[w])]
    /\ pc' = [pc EXCEPT ![w] = "served"]
    /\ UNCHANGED <<health, err, ch, got, seen, requests, collects, describes, descs>>

\* The request is over: the invocation's frame and channel are gone.
Finish(w) ==
    /\ pc[w] = "served"
    /\ pc' = [pc EXCEPT ![w] = "idle"]
    /\ health' = [health EXCEPT ![Frame(w)] = <<>>]
    /\ err' = [err EXCEPT ![Frame(w)] = "nil"]
    /\ ch' = [ch EXCEPT ![w] = <<>>]
    /\ got' = [got EXCEPT ![w] = <<>>]
    /\ body' = [body EXCEPT ![w] = {}]
    /\ UNCHANGED <<seen, requests, collects, describes, descs>>

\* As Finish, and the observer remembers this scrape (the first it keeps).
FinishRemembered(w) ==
    /\ pc[w] = "served"
    /\ seen = <<>>
    /\ seen' = <<[resp |-> got[w][1], out |-> ch[w]]>>
    /\ pc' = [pc EXCEPT ![w] = "idle"]
    /\ health' = [health EXCEPT ![Frame(w)] = <<>>]
    /\ err' = [err EXCEPT ![Frame(w)] = "nil"]
    /\ ch' = [ch EXCEPT ![w] = <<>>]
    /\ got' = [got EXCEPT ![w] = <<>>]
    /\ body' = [body EXCEPT ![w] = {}]
    /\ UNCHANGED <<requests, collects, describes, descs>>

\* ------------------------------------------------------- specifications
Init ==
    /\ pc = [w \in Workers |-> "idle"]
    /\ health = [w \in Workers |-> <<>>]
    /\ err = [w \in Workers |-> "nil"]
    /\ ch = [w \in Workers |-> <<>>]
    /\ got = [w \in Workers |-> <<>>]
    /\ body = [w \in Workers |-> {}]
    /\ seen = <<>>
    /\ requests = 0
    /\ collects = 0
    /\ describes = 0
    /\ descs = <<>>

\* Scrapes one after another, with Describe calls in between.
Next ==
    \/ Begin("w1")
    \/ Health("w1")
    \/ Branch("w1")
    \/ Send("w1")
    \/ Return("w1")
    \/ Finish("w1")
    \/ FinishRemembered("w1")
    \/ Describe

Spec == Init /\ [][Next]_vars

\* Two scrapes dispatched concurrently on the one Exporter.
NextConc ==
    \E w \in Workers :
        \/ Begin(w)
        \/ Health(w)
        \/ Branch(w)
        \/ Send(w)
        \/ Return(w)
        \/ Finish(w)

SpecConc == Init /\ [][NextConc]_vars

\* ------------------------------------------------ vocabulary of the claims
\* Collect has run to its return statement in scrape w.
Returned(w) == pc[w] \in ReturnLines \cup {"served"}

CallFailed(w) == got[w] # <<>> /\ got[w][1].err # "nil"

CallSucceeded(w) == got[w] # <<>> /\ got[w][1].err = "nil"

Gauge(name, value) == [name |-> name, value |-> value, labels |-> <<>>]

Info(key, value) ==
    [name |-> "vault_" \o key, value |-> 1, labels |-> << <<key, value>> >>]

UpIndexes(out) == {i \in 1..Len(out) : out[i].name = "vault_up"}

FromBool(b) == IF b THEN 1 ELSE 0

\* The sample sequence section 4.2 prescribes for an upstream result.
Prescribed(r) ==
    IF r.err # "nil" THEN <<Gauge("vault_up", 0)>>
    ELSE LET s == r.health[1]
         IN  <<Gauge("vault_up", 1),
               Gauge("vault_initialized", FromBool(s.Initialized)),
               Gauge("vault_sealed", FromBool(s.Sealed)),
               Gauge("vault_standby", FromBool(s.Standby)),
               [name |-> "vault_version", value |-> 1,
                labels |-> << <<"version", s.Version>> >>],
               [name |-> "vault_cluster_name", value |-> 1,
                labels |-> << <<"cluster_name", s.ClusterName>> >>],
               [name |-> "vault_cluster_id", value |-> 1,
                labels |-> << <<"cluster_id", s.ClusterID>> >>]>>

IsPrefix(a, b) == Len(a) <= Len(b) /\ a = SubSeq(b, 1, Len(a))

HasPrefix(text, p) == Len(text) >= Len(p) /\ SubSeq(text, 1, Len(p)) = p

CatalogNames ==
    <<"vault_up", "vault_initialized", "vault_sealed", "vault_standby",
      "vault_version", "vault_cluster_name", "vault_cluster_id">>

\* ------------------------------------------------------------------ C1
\* C1: in every scrape exactly one up sample is emitted, 1 when that
\* scrape's upstream call succeeded and 0 otherwise, and a sample other than
\* up appears only in a scrape whose upstream call succeeded.
C1_OneUp ==
    \A w \in Workers :
        /\ Cardinality(UpIndexes(ch[w])) <= 1
        /\ Returned(w) =>
              /\ Cardinality(UpIndexes(ch[w])) = 1
              /\ \A i \in UpIndexes(ch[w]) :
                    ch[w][i].value = IF CallSucceeded(w) THEN 1 ELSE 0
        /\ (\E i \in 1..Len(ch[w]) : ch[w][i].name # "vault_up") => CallSucceeded(w)

\* A failed scrape that follows a successful one has returned with up = 0.
C1_Witness ==
    /\ seen # <<>> /\ seen[1].resp.err = "nil"
    /\ pc["w1"] = "L103" /\ CallFailed("w1")
    /\ ch["w1"] = <<Gauge("vault_up", 0)>>

\* ------------------------------------------------------------------ C2
\* C2: whatever the kind of failure of the upstream call, Collect emits
\* exactly one sample, up with value 0 and no label.
C2_FailureIsUpZero ==
    \A w \in Workers :
        Returned(w) /\ CallFailed(w) => ch[w] = <<Gauge("vault_up", 0)>>

\* A malformed body that left a non-nil health behind, degraded to up = 0.
C2_Witness ==
    /\ pc["w1"] = "served"
    /\ got["w1"] # <<>>
    /\ got["w1"][1].err = "malformed" /\ got["w1"][1].health # <<>>
    /\ ch["w1"] = <<Gauge("vault_up", 0)>>

\* ------------------------------------------------------------------ C3
\* C3: a successful upstream response yields exactly 7 samples, one per
\* catalog entry and in catalog order, the first being up = 1.
C3_SevenInOrder ==
    \A w \in Workers :
        CallSucceeded(w) =>
            /\ Len(ch[w]) <= 7
            /\ \A i \in 1..Len(ch[w]) : ch[w][i].name = CatalogNames[i]
            /\ Returned(w) => Len(ch[w]) = 7 /\ ch[w][1] = Gauge("vault_up", 1)

\* A successful scrape has reached line 127 with cluster_id sent last.
C3_Witness ==
    /\ pc["w1"] = "L127" /\ CallSucceeded("w1")
    /\ Len(ch["w1"]) = 7 /\ ch["w1"][7].name = "vault_cluster_id"

\* ------------------------------------------------------------------ C4
\* C4: Collect never panics, whatever the upstream returned, and the failure
\* path reaches its return having emitted up = 0.
C4_NoPanic ==
    \A w \in Workers :
        /\ pc[w] # "panic"
        /\ pc[w] = "L103" => ch[w] # <<>> /\ ch[w][Len(ch[w])] = Gauge("vault_up", 0)
        /\ CallSucceeded(w) /\ pc[w] \in SendLines => Len(ch[w]) < 7

\* Both paths have run to their return: an earlier scrape failed with a nil
\* health, the current one succeeded.
C4_Witness ==
    /\ seen # <<>> /\ seen[1].resp.err # "nil" /\ seen[1].resp.health = <<>>
    /\ pc["w1"] = "L127" /\ CallSucceeded("w1")

\* ------------------------------------------------------------------ C5
\* C5: every Describe call sends the same 7 identities (up, initialized,
\* sealed, standby without label keys; version, cluster_name, cluster_id with
\* the one label key of the same name), and makes no upstream call.
C5_DescribeFixed ==
    [][describes' # describes =>
          /\ descs' = <<[fqName |-> "vault_up", variableLabels |-> <<>>],
                        [fqName |-> "vault_initialized", variableLabels |-> <<>>],
                        [fqName |-> "vault_sealed", variableLabels |-> <<>>],
                        [fqName |-> "vault_standby", variableLabels |-> <<>>],
                        [fqName |-> "vault_version", variableLabels |-> <<"version">>],
                        [fqName |-> "vault_cluster_name",
                         variableLabels |-> <<"cluster_name">>],
                        [fqName |-> "vault_cluster_id",
                         variableLabels |-> <<"cluster_id">>]>>
          /\ requests' = requests
          /\ got' = got]_vars

\* Describe has been called twice, with a failed scrape behind and a
\* scrape in flight.
C5_Witness ==
    /\ describes >= 2 /\ Len(descs) = 7
    /\ seen # <<>> /\ seen[1].resp.err # "nil"
    /\ pc["w1"] = "L118"

\* ------------------------------------------------------------------ C6
\* C6 as stated: with the upstream connection refused, the served text holds
\* `vault_up 0` and no other sample whose name starts with vault_.
C6_Original ==
    \A w \in Workers :
        pc[w] = "served" /\ CallFailed(w) /\ got[w][1].err = "refused" =>
            /\ "vault_up 0" \in body[w]
            /\ \A l \in body[w] : HasPrefix(l, "vault_") => l = "vault_up 0"

\* C6 amended: with the upstream connection refused, the served text holds
\* `vault_up 0`, and the only other sample whose name starts with vault_ is
\* the version collector's vault_exporter_build_info.
C6_Amended ==
    \A w \in Workers :
        pc[w] = "served" /\ CallFailed(w) /\ got[w][1].err = "refused" =>
            /\ "vault_up 0" \in body[w]
            /\ \A l \in body[w] :
                  HasPrefix(l, "vault_") =>
                      \/ l = "vault_up 0"
                      \/ HasPrefix(l, "vault_exporter_build_info{")

\* A refused scrape was served: vault_up 0 and the build info line.
C6_Witness ==
    /\ pc["w1"] = "served"
    /\ CallFailed("w1") /\ got["w1"][1].err = "refused"
    /\ "vault_up 0" \in body["w1"]
    /\ Cardinality(body["w1"]) = 2

\* ------------------------------------------------------------------ C7
\* C7: each Collect invocation issues exactly one upstream health query,
\* before it emits anything, and neither path issues a second one.
C7_OneQuery ==
    /\ requests = collects - Cardinality({w \in Workers : pc[w] = "L97"})
    /\ \A w \in Workers : pc[w] = "L97" => ch[w] = <<>> /\ got[w] = <<>>
    /\ \A w \in Workers : ch[w] # <<>> => got[w] # <<>>

\* Two scrapes have made their calls, both failed, and two queries were issued.
C7_Witness ==
    /\ seen # <<>> /\ seen[1].resp.err # "nil"
    /\ pc["w1"] = "served" /\ CallFailed("w1")
    /\ collects = 2 /\ requests = 2

\* ------------------------------------------------------------------ C8
\* C8: on a successful scrape initialized, sealed and standby are 1 exactly
\* when the snapshot's boolean is true, and version, cluster_name and
\* cluster_id are 1 with the one label carrying the snapshot's own field.
C8_SourcedFromSnapshot ==
    \A w \in Workers :
        Returned(w) /\ CallSucceeded(w) =>
            LET s == got[w][1].health[1]
                out == ch[w]
            IN  /\ Len(out) = 7
                /\ out[2] = Gauge("vault_initialized", FromBool(s.Initialized))
                /\ out[3] = Gauge("vault_sealed", FromBool(s.Sealed))
                /\ out[4] = Gauge("vault_standby", FromBool(s.Standby))
                /\ out[5] = Info("version", s.Version)
                /\ out[6] = Info("cluster_name", s.ClusterName)
                /\ out[7] = Info("cluster_id", s.ClusterID)

\* The snapshot {initialized, not sealed, standby, 1.2.3, prod-a, abc-1}
\* was served as initialized=1, sealed=0, standby=1 and its own labels.
C8_Witness ==
    /\ pc["w1"] = "served"
    /\ got["w1"] = <<[health |-> <<[Initialized |-> TRUE, Sealed |-> FALSE,
                                    Standby |-> TRUE, Version |-> "1.2.3",
                                    ClusterName |-> "prod-a", ClusterID |-> "abc-1"]>>,
                      err |-> "nil"]>>
    /\ ch["w1"][2].value = 1 /\ ch["w1"][3].value = 0 /\ ch["w1"][4].value = 1
    /\ ch["w1"][6].labels = << <<"cluster_name", "prod-a">> >>

\* ------------------------------------------------------------------ C9
\* C9: Collect carries nothing from one scrape to the next: a scrape that
\* receives the same upstream response as an earlier one emits the same
\* sequence; a failed scrape emits no sample of an earlier successful one,
\* and a successful scrape after a failed one emits its full 7 samples.
C9_NoCarryOver ==
    \A w \in Workers :
        Returned(w) /\ seen # <<>> =>
            LET a == seen[1]
                r == got[w][1]
                out == ch[w]
            IN  /\ a.resp = r => a.out = out
                /\ a.resp.err = "nil" /\ r.err # "nil" =>
                      \A i \in 1..Len(out) : \A j \in 1..Len(a.out) : out[i] # a.out[j]
                /\ a.resp.err # "nil" /\ r.err = "nil" => Len(out) = 7

\* The third scrape received the response a remembered earlier scrape had,
\* and emitted the same 7 samples.
C9_Witness ==
    /\ collects = 3
    /\ seen # <<>> /\ got["w1"] # <<>>
    /\ seen[1].resp = got["w1"][1] /\ seen[1].resp.err = "nil"
    /\ pc["w1"] = "served"
    /\ Len(ch["w1"]) = 7 /\ seen[1].out = ch["w1"]

\* ------------------------------------------------------------------ C10
\* C10: with two scrapes running concurrently on the one Exporter, each
\* makes its own upstream call and emits what the result of its own call
\* prescribes, under every interleaving.
C10_Independent ==
    /\ requests = collects - Cardinality({w \in Workers : pc[w] = "L97"})
    /\ \A w \in Workers :
          /\ pc[w] # "panic"
          /\ got[w] = <<>> => ch[w] = <<>>
          /\ got[w] # <<>> => IsPrefix(ch[w], Prescribed(got[w][1]))
          /\ got[w] # <<>> /\ Returned(w) => ch[w] = Prescribed(got[w][1])

\* One scrape has failed and returned up = 0 alone while the other, which
\* succeeded, is in the middle of emitting its own snapshot.
C10_Witness ==
    /\ pc["w1"] = "L103" /\ CallFailed("w1") /\ ch["w1"] = <<Gauge("vault_up", 0)>>
    /\ pc["w2"] = "L121" /\ CallSucceeded("w2") /\ Len(ch["w2"]) = 5

====
